---- MODULE Spec2Model ----
\* FlagModel (flag_embedding/baai_general_embedding/flag_models.py): construction,
\* encode_queries, encode_corpus, the batched encode loop and pooling.
\*
\* Strings are sequences of one-character strings.  A tensor of shape
\* (batch, tokens, dim) is a sequence of rows, each a sequence of token
\* positions, each a sequence of Dim integers.  A pooled embedding is an exact
\* rational vector [num, den, unit]: num/den per dimension, and unit = TRUE
\* marks the unit vector in the direction of num (the result of L2
\* normalisation, which is determined by the direction alone).
EXTENDS Integers, Sequences, FiniteSets, TLC

\* ---------------------------------------------------------------- bounds
MaxSentences == 3
MaxCorpus == 2
MaxBatch == 2
MaxGpus == 2
MaxTokens == 2

\* ------------------------------------------------------ program constants
Dim == 2
DefaultMaxLength == 512
PAD == 0
CLS == 1

\* ----------------------------------------------------------- input domains
Texts == { <<>>, <<"a">>, <<"a", "b">> }
Titles == { <<>>, <<"a">> }
Bodies == { <<" ", "b", " ">> }
HiddenValues == { -1, 2 }
Instructions == { <<"q", " ">> }
PoolingMethods == { "cls", "mean", "max" }
MaxLengths == { 2, DefaultMaxLength }

NoField == [has |-> FALSE, s |-> <<>>]
Field(s) == [has |-> TRUE, s |-> s]
TitleFields == { NoField } \cup { Field(s) : s \in Titles }
TextFields == { NoField } \cup { Field(s) : s \in Bodies }

\* a plain string item, and a record (dict) item with optional title and text
Str(s) == [kind |-> "str", s |-> s, title |-> NoField, text |-> NoField]
Doc(title, text) == [kind |-> "dict", s |-> <<>>, title |-> title, text |-> text]

StrItems == { Str(s) : s \in Texts }
DocItems == { Doc(t, x) : t \in TitleFields, x \in TextFields }
CorpusItems == { Str(s) : s \in Bodies } \cup DocItems

RECURSIVE SeqsUpTo(_, _)
SeqsUpTo(S, n) ==
    IF n = 0 THEN { <<>> }
    ELSE LET shorter == SeqsUpTo(S, n - 1)
         IN  shorter \cup { Append(q, x) : q \in { r \in shorter : Len(r) = n - 1 }, x \in S }

Min(a, b) == IF a < b THEN a ELSE b
Max(a, b) == IF a < b THEN b ELSE a
Abs(a) == IF a < 0 THEN -a ELSE a

RECURSIVE GCD(_, _)
GCD(a, b) == IF b = 0 THEN Abs(a) ELSE GCD(b, a % b)

RECURSIVE SumSeq(_)
SumSeq(q) == IF q = <<>> THEN 0 ELSE q[1] + SumSeq(Tail(q))

\* the chunk outputs joined last chunk first
RECURSIVE FlattenLastFirst(_)
FlattenLastFirst(qs) == IF qs = <<>> THEN <<>> ELSE FlattenLastFirst(Tail(qs)) \o qs[1]

\* np.concatenate(all_embeddings, axis=0)
RECURSIVE Flatten(_)
Flatten(qs) == IF qs = <<>> THEN <<>> ELSE qs[1] \o Flatten(Tail(qs))

\* ------------------------------------------------------- text operations
IsSpace(c) == c = " "

RECURSIVE LStrip(_)
LStrip(s) == IF s # <<>> /\ IsSpace(s[1]) THEN LStrip(Tail(s)) ELSE s

RECURSIVE RStrip(_)
RStrip(s) ==
    IF s # <<>> /\ IsSpace(s[Len(s)]) THEN RStrip(SubSeq(s, 1, Len(s) - 1)) ELSE s

\* str.strip()
Strip(s) == RStrip(LStrip(s))

\* the instruction put after the query
FormatQueryAfter(instruction, q) == q \o instruction

\* '{}{}'.format(instruction, q)
FormatQuery(instruction, q) == instruction \o q

\* the formatted record left untrimmed
FormatDocUntrimmed(doc) ==
    (IF doc.title.has THEN doc.title.s ELSE <<>>) \o <<" ">> \o doc.text.s

\* '{} {}'.format(doc.get('title', ''), doc['text']).strip()
FormatDoc(doc) ==
    Strip((IF doc.title.has THEN doc.title.s ELSE <<>>) \o <<" ">> \o doc.text.s)

\* ------------------------------------------- tokenizer (external collaborator)
TokenId(c) ==
    CASE c = " " -> 2
      [] c = "a" -> 3
      [] c = "b" -> 4
      [] OTHER   -> 5

\* one sentence: a leading CLS token, one token per character, truncation=True
Tokenize(s, max_length) ==
    LET toks == <<CLS>> \o [i \in 1..Len(s) |-> TokenId(s[i])]
    IN  SubSeq(toks, 1, Min(Len(toks), max_length))

RECURSIVE MaxLenOf(_)
MaxLenOf(rows) == IF rows = <<>> THEN 0 ELSE Max(Len(rows[1]), MaxLenOf(Tail(rows)))

\* self.tokenizer(sentences_batch, padding=True, truncation=True, max_length=...)
\* padding=True pads every row to the longest row of the batch
TokenizeBatch(batch, max_length) ==
    LET rows  == [r \in 1..Len(batch) |-> Tokenize(batch[r].s, max_length)]
        width == MaxLenOf(rows)
    IN  [input_ids |->
            [r \in 1..Len(batch) |->
                [p \in 1..width |-> IF p <= Len(rows[r]) THEN rows[r][p] ELSE PAD]],
         attention_mask |->
            [r \in 1..Len(batch) |->
                [p \in 1..width |-> IF p <= Len(rows[r]) THEN 1 ELSE 0]]]

\* ----------------------------------------------- model (external collaborator)
\* An attention-masked encoder: the hidden state of a real token depends on the
\* real tokens of its own row only; the hidden state at a padding position is
\* whatever the network computes there, which varies with the padded width.
RECURSIVE Context(_, _)
Context(toks, i) == IF i > Len(toks) THEN 0 ELSE i * toks[i] + Context(toks, i + 1)

RealTokens(ids, mask) == SubSeq(ids, 1, SumSeq(mask))

HiddenAt(ids, mask, p) ==
    IF mask[p] = 1
    THEN [k \in 1..Dim |-> IF k = 1 THEN ids[p] ELSE Context(RealTokens(ids, mask), 1) + k + p]
    ELSE [k \in 1..Dim |-> Len(ids) + p + k]

\* self.model(**inputs, return_dict=True).last_hidden_state
Forward(inputs) ==
    [r \in 1..Len(inputs.input_ids) |->
        [p \in 1..Len(inputs.input_ids[r]) |->
            HiddenAt(inputs.input_ids[r], inputs.attention_mask[r], p)]]

\* ------------------------------------------------------ exact row arithmetic
RECURSIVE GCDSeq(_)
GCDSeq(q) == IF q = <<>> THEN 0 ELSE GCD(q[1], GCDSeq(Tail(q)))

\* the vector nums / d; division by zero gives inf/nan, kept as den = 0
Frac(nums, d) ==
    IF d = 0 THEN [num |-> nums, den |-> 0, unit |-> FALSE]
    ELSE LET g == GCD(GCDSeq(nums), d)
         IN  [num |-> [k \in 1..Len(nums) |-> nums[k] \div g], den |-> d \div g, unit |-> FALSE]

IsZero(v) == \A k \in 1..Len(v.num) : v.num[k] = 0

\* torch.nn.functional.normalize(embeddings, dim=-1), one row: v / max(|v|, eps)
NormalizeRow(v) ==
    IF v.den = 0 \/ IsZero(v) THEN v
    ELSE LET g == GCDSeq(v.num)
         IN  [num |-> [k \in 1..Len(v.num) |-> v.num[k] \div g], den |-> 1, unit |-> TRUE]

\* ------------------------------------------------------------------ pooling
NoValue == [isNone |-> TRUE, rows |-> <<>>]
Value(rows) == [isNone |-> FALSE, rows |-> rows]

\* the sum over all positions, padding included
UnmaskedSum(hs, mask) ==
    [k \in 1..Dim |-> SumSeq([p \in 1..Len(hs) |-> hs[p][k]])]

\* torch.sum(last_hidden_state * attention_mask.unsqueeze(-1).float(), dim=1), one row
MaskedSum(hs, mask) ==
    [k \in 1..Dim |-> SumSeq([p \in 1..Len(hs) |-> hs[p][k] * mask[p]])]

\* last_hidden_state[:, 0]
PoolCls(last_hidden_state) ==
    [r \in 1..Len(last_hidden_state) |-> Frac(last_hidden_state[r][1], 1)]

\* the plain mean over the padded width
PoolMeanOverWidth(last_hidden_state, attention_mask) ==
    [r \in 1..Len(last_hidden_state) |->
        Frac([k \in 1..Dim |->
                 SumSeq([p \in 1..Len(last_hidden_state[r]) |-> last_hidden_state[r][p][k]])],
             Len(last_hidden_state[r]))]

\* s / d with d = attention_mask.sum(dim=1, keepdim=True)
PoolMean(last_hidden_state, attention_mask) ==
    [r \in 1..Len(last_hidden_state) |->
        Frac(MaskedSum(last_hidden_state[r], attention_mask[r]), SumSeq(attention_mask[r]))]

\* FlagModel.pooling: no branch for any other method, so the call returns None
pooling(pooling_method_, last_hidden_state_, attention_mask_) ==
    IF pooling_method_ = "cls" THEN Value(PoolCls(last_hidden_state_))
    ELSE IF pooling_method_ = "mean" THEN Value(PoolMean(last_hidden_state_, attention_mask_))
    ELSE NoValue

\* -------------------------------------------------------------------- state
VARIABLES
    host,            \* what the environment reports: identifier resolvable, device count
    pc,              \* "new", "ready", "ctor_failed", "loop", "pooled", "done", "raised",
                     \* and "pool_in" / "pool_out" for pooling applied to a given tensor
    error,           \* the exception that ended construction or the call, or "none"
    self,            \* the FlagModel's attributes
    method,          \* the public method the caller invoked
    arg,             \* the caller's list, as passed to that method
    requested,       \* the batch_size argument as passed
    sentences,       \* encode's parameter `sentences`
    batch_size,      \* encode's local batch_size (after line 63)
    max_length,      \* encode's parameter max_length
    start_index,     \* the loop variable
    batches,         \* the slices taken so far: [start, stop), in loop order
    attention_mask,  \* inputs['attention_mask'] of the current chunk
    last_hidden_state,
    embeddings,      \* the local `embeddings`: None or one row per chunk item
    all_embeddings,  \* the accumulator: one array per finished chunk
    result           \* the returned array (meaningful when pc = "done")

vars == << host, pc, error, self, method, arg, requested, sentences, batch_size,
           max_length, start_index, batches, attention_mask, last_hidden_state,
           embeddings, all_embeddings, result >>

config == << host, self >>
call == << method, arg, requested, sentences, batch_size, max_length >>
locals == << start_index, batches, attention_mask, last_hidden_state, embeddings,
             all_embeddings, result >>

NoInstruction == [has |-> FALSE, s |-> <<>>]
Instruction(s) == [has |-> TRUE, s |-> s]

NoSelf ==
    [pooling_method |-> "cls", normalize_embeddings |-> TRUE,
     query_instruction_for_retrieval |-> NoInstruction,
     num_gpus |-> 0, data_parallel |-> FALSE]

NoCall ==
    /\ method' = "none"
    /\ arg' = <<>>
    /\ requested' = 0
    /\ sentences' = <<>>
    /\ batch_size' = 0
    /\ max_length' = 0

NoLocals ==
    /\ start_index' = 0
    /\ batches' = <<>>
    /\ attention_mask' = <<>>
    /\ last_hidden_state' = <<>>
    /\ embeddings' = NoValue
    /\ all_embeddings' = <<>>
    /\ result' = <<>>

Init ==
    /\ host \in [resolvable : BOOLEAN, device_count : 0..MaxGpus]
    /\ pc = "new"
    /\ error = "none"
    /\ self = NoSelf
    /\ method = "none"
    /\ arg = <<>>
    /\ requested = 0
    /\ sentences = <<>>
    /\ batch_size = 0
    /\ max_length = 0
    /\ start_index = 0
    /\ batches = <<>>
    /\ attention_mask = <<>>
    /\ last_hidden_state = <<>>
    /\ embeddings = NoValue
    /\ all_embeddings = <<>>
    /\ result = <<>>

\* ------------------------------------------------------------- construction
\* FlagModel.__init__: from_pretrained raises for an unresolvable identifier;
\* with more than one device the model is wrapped and line 29 then reads
\* self.batch_size, an attribute no line has set.
Construct(pooling_method_, normalize_, instruction_) ==
    /\ pc = "new"
    /\ IF ~host.resolvable
       THEN /\ pc' = "ctor_failed"
            /\ error' = "OSError"
            /\ self' = self
       ELSE LET built == [pooling_method |-> pooling_method_,
                          normalize_embeddings |-> normalize_,
                          query_instruction_for_retrieval |-> instruction_,
                          num_gpus |-> host.device_count,
                          data_parallel |-> host.device_count > 1]
            IN  IF host.device_count > 1
                THEN /\ pc' = "ctor_failed"
                     /\ error' = "AttributeError"
                     /\ self' = built
                ELSE /\ pc' = "ready"
                     /\ error' = "none"
                     /\ self' = built
    /\ UNCHANGED << host, call, locals >>

\* ------------------------------------------------------------------- encode
\* the scaling without its guard
EffectiveBatchSizeUnguarded(batch_size_, num_gpus_) == batch_size_ * num_gpus_

\* lines 62-63
EffectiveBatchSize(batch_size_, num_gpus_) ==
    IF num_gpus_ > 0 THEN batch_size_ * num_gpus_ ELSE batch_size_

\* encode, lines 62-66: up to the first evaluation of the loop condition
EnterEncode(sentences_, batch_size_, max_length_) ==
    /\ sentences' = sentences_
    /\ batch_size' = EffectiveBatchSize(batch_size_, self.num_gpus)
    /\ max_length' = max_length_
    /\ pc' = "loop"
    /\ error' = "none"
    /\ NoLocals

Raise(e) ==
    /\ pc' = "raised"
    /\ error' = e

\* sentences[start_index:start_index + batch_size]
Slice(q, from, to) == SubSeq(q, from + 1, Min(to, Len(q)))

Encode(sentences_, batch_size_, max_length_) ==
    /\ pc = "ready"
    /\ method' = "encode"
    /\ arg' = sentences_
    /\ requested' = batch_size_
    /\ EnterEncode(sentences_, batch_size_, max_length_)
    /\ UNCHANGED config

\* lines 67-77 of one iteration: slice, tokenize, forward pass, pooling.
\* The tokenizer rejects a batch holding anything but strings.
TokenizeForwardPool ==
    /\ pc = "loop"
    /\ start_index < Len(sentences)
    /\ LET sentences_batch == Slice(sentences, start_index, start_index + batch_size)
       IN  IF \E r \in 1..Len(sentences_batch) : sentences_batch[r].kind # "str"
           THEN /\ Raise("ValueError")
                /\ UNCHANGED << batches, attention_mask, last_hidden_state, embeddings >>
           ELSE LET inputs == TokenizeBatch(sentences_batch, max_length)
                    hidden == Forward(inputs)
                IN  /\ batches' = Append(batches,
                           [start |-> start_index, stop |-> start_index + Len(sentences_batch)])
                    /\ attention_mask' = inputs.attention_mask
                    /\ last_hidden_state' = hidden
                    /\ embeddings' = pooling(self.pooling_method, hidden, inputs.attention_mask)
                    /\ pc' = "pooled"
                    /\ error' = error
    /\ UNCHANGED << config, call, start_index, all_embeddings, result >>

\* lines 78-81 of one iteration, and the step of the range.  normalize(None)
\* and None.cpu() both raise.
NormalizeAppend ==
    /\ pc = "pooled"
    /\ IF embeddings.isNone
       THEN /\ Raise(IF self.normalize_embeddings THEN "TypeError" ELSE "AttributeError")
            /\ UNCHANGED << embeddings, all_embeddings, start_index >>
       ELSE LET out == IF self.normalize_embeddings
                       THEN [r \in 1..Len(embeddings.rows) |-> NormalizeRow(embeddings.rows[r])]
                       ELSE embeddings.rows
            IN  /\ embeddings' = Value(out)
                /\ all_embeddings' = Append(all_embeddings, out)
                /\ start_index' = start_index + batch_size
                /\ pc' = "loop"
                /\ error' = error
    /\ UNCHANGED << config, call, batches, attention_mask, last_hidden_state, result >>

\* line 83: np.concatenate raises ValueError on an empty list of arrays
Concatenate ==
    /\ pc = "loop"
    /\ start_index >= Len(sentences)
    /\ IF all_embeddings = <<>>
       THEN /\ Raise("ValueError")
            /\ result' = result
       ELSE /\ result' = Flatten(all_embeddings)
            /\ pc' = "done"
            /\ error' = error
    /\ UNCHANGED << config, call, start_index, batches, attention_mask,
                    last_hidden_state, embeddings, all_embeddings >>

\* the call is over (returned or raised); nothing of it outlives it
Return ==
    /\ pc \in { "done", "raised" }
    /\ pc' = "ready"
    /\ error' = "none"
    /\ NoCall
    /\ NoLocals
    /\ UNCHANGED config

\* ------------------------------------------------------------ encode_queries
\* lines 39-42: the list comprehension builds a new list; without an
\* instruction the caller's list itself is handed on
QueryInputTexts(instruction, queries) ==
    IF instruction.has
    THEN [i \in 1..Len(queries) |-> Str(FormatQuery(instruction.s, queries[i].s))]
    ELSE queries

EncodeQueries(queries, batch_size_, max_length_) ==
    /\ pc = "ready"
    /\ method' = "encode_queries"
    /\ arg' = queries
    /\ requested' = batch_size_
    /\ EnterEncode(QueryInputTexts(self.query_instruction_for_retrieval, queries),
                   batch_size_, max_length_)
    /\ UNCHANGED config

\* ------------------------------------------------------------- encode_corpus
\* what evaluating the comprehension's element raises for one item, or "none":
\* a str has no .get, a dict without 'text' has no doc['text']
DocError(doc) ==
    IF doc.kind # "dict" THEN "AttributeError"
    ELSE IF ~doc.text.has THEN "KeyError"
    ELSE "none"

\* the first item of the comprehension that raises, 0 when none does
FirstBadDoc(corpus) ==
    LET bad == { i \in 1..Len(corpus) : DocError(corpus[i]) # "none" }
    IN  IF bad = {} THEN 0 ELSE CHOOSE i \in bad : \A j \in bad : i <= j

\* line 53: only corpus[0] decides which branch the whole corpus takes
CorpusIsDicts(corpus) == corpus[1].kind = "dict"

\* lines 53-56
CorpusInputTexts(corpus) ==
    IF CorpusIsDicts(corpus)
    THEN [i \in 1..Len(corpus) |-> Str(FormatDoc(corpus[i]))]
    ELSE corpus

EncodeCorpus(corpus, batch_size_, max_length_) ==
    /\ pc = "ready"
    /\ method' = "encode_corpus"
    /\ arg' = corpus
    /\ requested' = batch_size_
    /\ IF corpus = <<>>
       THEN /\ Raise("IndexError")
            /\ sentences' = <<>>
            /\ batch_size' = 0
            /\ max_length' = max_length_
            /\ NoLocals
       ELSE IF CorpusIsDicts(corpus) /\ FirstBadDoc(corpus) # 0
       THEN /\ Raise(DocError(corpus[FirstBadDoc(corpus)]))
            /\ sentences' = <<>>
            /\ batch_size' = 0
            /\ max_length' = max_length_
            /\ NoLocals
       ELSE EnterEncode(CorpusInputTexts(corpus), batch_size_, max_length_)
    /\ UNCHANGED config

\* ------------------------------------------------------------ specification
Next ==
    \/ \E pm \in PoolingMethods, nz \in BOOLEAN,
          ins \in { NoInstruction } \cup { Instruction(s) : s \in Instructions } :
          Construct(pm, nz, ins)
    \/ \E ss \in SeqsUpTo(StrItems, MaxSentences), bs \in 1..MaxBatch, ml \in MaxLengths :
          Encode(ss, bs, ml)
    \/ \E qs \in SeqsUpTo(StrItems, MaxSentences), bs \in 1..MaxBatch, ml \in MaxLengths :
          EncodeQueries(qs, bs, ml)
    \/ \E cs \in SeqsUpTo(CorpusItems, MaxCorpus), bs \in 1..MaxBatch, ml \in MaxLengths :
          EncodeCorpus(cs, bs, ml)
    \/ TokenizeForwardPool
    \/ NormalizeAppend
    \/ Concatenate
    \/ Return

Spec == Init /\ [][Next]_vars

\* ------------------------------------------- pooling on an arbitrary tensor
\* FlagModel.pooling applied to any one-row hidden-state tensor and any 0/1
\* mask of the same width (also masks no tokenizer produces: all zero, or a
\* zero before a one).
Tensors(width) == [1..1 -> [1..width -> [1..Dim -> HiddenValues]]]
Masks(width) == [1..1 -> [1..width -> {0, 1}]]

PoolInit ==
    /\ host = [resolvable |-> TRUE, device_count |-> 0]
    /\ pc = "pool_in"
    /\ error = "none"
    /\ \E pm \in PoolingMethods : self = [NoSelf EXCEPT !.pooling_method = pm]
    /\ method = "pooling"
    /\ arg = <<>>
    /\ requested = 0
    /\ sentences = <<>>
    /\ batch_size = 0
    /\ max_length = 0
    /\ start_index = 0
    /\ batches = <<>>
    /\ \E width \in 1..MaxTokens :
          /\ last_hidden_state \in Tensors(width)
          /\ attention_mask \in Masks(width)
    /\ embeddings = NoValue
    /\ all_embeddings = <<>>
    /\ result = <<>>

PoolApply ==
    /\ pc = "pool_in"
    /\ embeddings' = pooling(self.pooling_method, last_hidden_state, attention_mask)
    /\ pc' = "pool_out"
    /\ UNCHANGED << config, call, error, start_index, batches, attention_mask,
                    last_hidden_state, all_embeddings, result >>

PoolNext == PoolApply

PoolSpec == PoolInit /\ [][PoolNext]_vars

\* ================================================================== claims
Supported == self.pooling_method \in { "cls", "mean" }
InEncode == pc \in { "loop", "pooled", "done" }

\* the embedding of one sentence: what the encoder makes of it on its own
EmbedAlone(item, max_length_) ==
    LET inputs == TokenizeBatch(<<item>>, max_length_)
        pooled == pooling(self.pooling_method, Forward(inputs), inputs.attention_mask).rows[1]
    IN  IF self.normalize_embeddings THEN NormalizeRow(pooled) ELSE pooled

RowsAlone(q, max_length_) == [i \in 1..Len(q) |-> EmbedAlone(q[i], max_length_)]

\* C1: encode of a non-empty list with a positive batch_size (and a supported
\* pooling method) returns; the returned array has one row per sentence and
\* row i is the embedding of sentence i, across chunk boundaries.
C1_RowPerSentenceInOrder ==
    /\ (pc = "done" =>
          /\ Len(result) = Len(sentences)
          /\ \A i \in 1..Len(sentences) : result[i] = EmbedAlone(sentences[i], max_length))
    /\ (pc = "raised" /\ method = "encode" => sentences = <<>> \/ ~Supported)

C1_Witness ==
    /\ pc = "done"
    /\ method = "encode"
    /\ Len(sentences) = 3
    /\ Len(all_embeddings) = 2
    /\ result[1] # result[2]
    /\ result[2] # result[3]
    /\ result[1] # result[3]

\* C2: encode, encode_queries and encode_corpus of an empty list return an
\* array with zero rows and raise nothing, in every configuration.
C2_EmptyListReturnsNoRows ==
    (method \in { "encode", "encode_queries", "encode_corpus" } /\ arg = <<>>) =>
        /\ pc # "raised"
        /\ (pc = "done" => result = <<>>)

\* C3: with a resolvable identifier and more than one device, construction
\* completes, the model is wrapped for data-parallel execution and the batch
\* size is scaled; construction fails only for an unresolvable identifier.
C3_MultiDeviceConstructionCompletes ==
    /\ (pc = "ctor_failed" => ~host.resolvable)
    /\ (pc = "ready" /\ host.device_count > 1 =>
          self.data_parallel /\ self.num_gpus = host.device_count)

\* C4: with a pooling method other than 'cls' and 'mean' the pooling step
\* fails: pooling never hands back a no-value result for encode to carry on to
\* normalisation with.
C4_PoolingNeverReturnsNoValue ==
    pc = "pooled" => ~embeddings.isNone

\* query i with the configured instruction in front of it
Prefixed(instruction, queries) ==
    [i \in 1..Len(queries) |->
        Str([k \in 1..(Len(instruction.s) + Len(queries[i].s)) |->
                IF k <= Len(instruction.s) THEN instruction.s[k]
                ELSE queries[i].s[k - Len(instruction.s)]])]

ExpectedQueryTexts ==
    IF self.query_instruction_for_retrieval.has
    THEN Prefixed(self.query_instruction_for_retrieval, arg)
    ELSE arg

QueriesAsEncode ==
    method = "encode_queries" =>
        /\ (InEncode =>
              /\ sentences = ExpectedQueryTexts
              /\ batch_size = EffectiveBatchSize(requested, self.num_gpus))
        /\ (pc = "done" => result = RowsAlone(ExpectedQueryTexts, max_length))
        /\ (pc = "raised" => arg = <<>> \/ ~Supported)

CallerListKept ==
    (method = "encode_queries" /\ method' = "encode_queries") => arg' = arg

\* C5: encode_queries(queries) gives what encode gives for the list of the
\* queries, in order, each with the configured instruction in front (the
\* queries themselves when no instruction is configured), and leaves the
\* caller's list as it was.
C5_QueriesEqualEncodeOfPrefixed == [](QueriesAsEncode) /\ [][CallerListKept]_vars

C5_Witness ==
    /\ pc = "done"
    /\ method = "encode_queries"
    /\ self.query_instruction_for_retrieval.has
    /\ Len(arg) = 2
    /\ arg[1] # arg[2]
    /\ result # RowsAlone(arg, max_length)

\* t is u without its leading and trailing whitespace
IsTrimOf(t, u) ==
    \E i \in 1..(Len(u) + 1) : \E j \in (i - 1)..Len(u) :
        /\ t = SubSeq(u, i, j)
        /\ \A k \in 1..(i - 1) : u[k] = " "
        /\ \A k \in (j + 1)..Len(u) : u[k] = " "
        /\ (i <= j => u[i] # " " /\ u[j] # " ")

TitleOf(doc) == IF doc.title.has THEN doc.title.s ELSE <<>>

\* item i is the string made of record i: trimmed title, one space, text
IsDocText(item, doc) ==
    /\ item.kind = "str"
    /\ IsTrimOf(item.s, TitleOf(doc) \o <<" ">> \o doc.text.s)
    /\ (TitleOf(doc) = <<>> => IsTrimOf(item.s, doc.text.s))

AllRecords(corpus) ==
    /\ corpus # <<>>
    /\ \A i \in 1..Len(corpus) : corpus[i].kind = "dict" /\ corpus[i].text.has

\* C6: for a corpus of records, encode_corpus gives what encode gives for the
\* list whose i-th element is the trimmed "title text" of record i; a record
\* with an empty or absent title is encoded as its (trimmed) text alone.
C6_RecordsEncodedAsTitleText ==
    (method = "encode_corpus" /\ AllRecords(arg)) =>
        /\ (pc = "raised" => ~Supported)
        /\ (InEncode =>
              /\ Len(sentences) = Len(arg)
              /\ \A i \in 1..Len(arg) : IsDocText(sentences[i], arg[i])
              /\ batch_size = EffectiveBatchSize(requested, self.num_gpus))
        /\ (pc = "done" => result = RowsAlone(sentences, max_length))

C6_Witness ==
    /\ pc = "done"
    /\ method = "encode_corpus"
    /\ AllRecords(arg)
    /\ Len(arg) = 2
    /\ TitleOf(arg[1]) # <<>>
    /\ TitleOf(arg[2]) = <<>>
    /\ sentences[2].s # arg[2].text.s

\* C7: encode_corpus treats every item by its own form: in any non-empty mix
\* of strings and records (each with a text), records become their trimmed
\* "title text", strings pass unchanged, and nothing is raised.
C7_EachItemByItsOwnForm ==
    (/\ method = "encode_corpus"
     /\ arg # <<>>
     /\ \A i \in 1..Len(arg) : arg[i].kind = "dict" => arg[i].text.has
     /\ Supported) =>
        /\ pc # "raised"
        /\ (InEncode =>
              /\ Len(sentences) = Len(arg)
              /\ \A i \in 1..Len(arg) :
                    IF arg[i].kind = "dict" THEN IsDocText(sentences[i], arg[i])
                    ELSE sentences[i] = arg[i])

\* encode as a function of the list and the effective batch size: the rows of
\* the chunks from `from` on, in order
RECURSIVE EncodeRows(_, _, _, _)
EncodeRows(q, from, b, max_length_) ==
    IF from >= Len(q) THEN <<>>
    ELSE LET inputs == TokenizeBatch(Slice(q, from, from + b), max_length_)
             pooled == pooling(self.pooling_method, Forward(inputs), inputs.attention_mask).rows
             out    == IF self.normalize_embeddings
                       THEN [r \in 1..Len(pooled) |-> NormalizeRow(pooled[r])]
                       ELSE pooled
         IN  out \o EncodeRows(q, from + b, b, max_length_)

\* C8: batching invariance: whatever the batch size, encode returns the same
\* row for sentence i; the run's result is the result for every other batch
\* size, batch size 1 (no companions, no padding) among them.
C8_BatchingInvariance ==
    pc = "done" =>
        \A b \in 1..(Len(sentences) + 1) : result = EncodeRows(sentences, 0, b, max_length)

C8_Witness ==
    /\ pc = "done"
    /\ self.pooling_method = "mean"
    /\ Len(sentences) = 3
    /\ batch_size = 2
    /\ Len(all_embeddings) = 2
    /\ Len(sentences[1].s) # Len(sentences[2].s)
    /\ max_length = DefaultMaxLength

ChunkOf(i) == { k \in 1..Len(batches) : batches[k].start <= i /\ i < batches[k].stop }

\* C9: the effective batch size is batch_size * devices when a device is
\* present and batch_size otherwise; the chunks are consecutive, in ascending
\* order, full except possibly the last (1..size), and cover every index once.
C9_ContiguousChunksOfEffectiveSize ==
    InEncode =>
        /\ batch_size = (IF self.num_gpus >= 1 THEN requested * self.num_gpus ELSE requested)
        /\ \A k \in 1..Len(batches) :
              /\ batches[k].start = (k - 1) * batch_size
              /\ batches[k].stop - batches[k].start >= 1
              /\ batches[k].stop - batches[k].start <= batch_size
              /\ batches[k].stop <= Len(sentences)
              /\ (k < Len(batches) => /\ batches[k].stop - batches[k].start = batch_size
                                      /\ batches[k + 1].start = batches[k].stop)
              /\ (k <= Len(all_embeddings) =>
                    Len(all_embeddings[k]) = batches[k].stop - batches[k].start)
        /\ (pc = "done" =>
              /\ Len(all_embeddings) = Len(batches)
              /\ \A i \in 0..(Len(sentences) - 1) : Cardinality(ChunkOf(i)) = 1)

C9_Witness ==
    /\ pc = "done"
    /\ self.num_gpus = 1
    /\ requested = 2
    /\ Len(sentences) = 3
    /\ batches = << [start |-> 0, stop |-> 2], [start |-> 2, stop |-> 3] >>

Unmasked(mask) == { p \in 1..Len(mask) : mask[p] = 1 }

RECURSIVE SumOver(_, _, _)
SumOver(hs, positions, k) ==
    IF positions = {} THEN 0
    ELSE LET p == CHOOSE x \in positions : TRUE
         IN  hs[p][k] + SumOver(hs, positions \ { p }, k)

\* C10: with pooling method 'mean', the pooled vector of an item with at least
\* one unmasked token is, per dimension, the sum of the hidden states at the
\* unmasked positions over their number; an item with a single unmasked token
\* pools to exactly that token's hidden state.
C10_MaskedMean ==
    (pc \in { "pool_out", "pooled" } /\ self.pooling_method = "mean") =>
        /\ ~embeddings.isNone
        /\ Len(embeddings.rows) = Len(last_hidden_state)
        /\ \A r \in 1..Len(last_hidden_state) :
              LET U   == Unmasked(attention_mask[r])
                  row == embeddings.rows[r]
              IN  U # {} =>
                    /\ row.den > 0
                    /\ ~row.unit
                    /\ \A k \in 1..Dim :
                          row.num[k] * Cardinality(U) = row.den * SumOver(last_hidden_state[r], U, k)
                    /\ \A p \in U :
                          U = { p } => row.num = last_hidden_state[r][p] /\ row.den = 1

C10_Witness ==
    /\ pc = "pool_out"
    /\ self.pooling_method = "mean"
    /\ attention_mask = << <<1, 0>> >>
    /\ last_hidden_state[1][1] # last_hidden_state[1][2]
    /\ embeddings.rows[1].num = last_hidden_state[1][1]

====
